---- MODULE Spec2Model ----
(***************************************************************************)
(* A model of the const string methods of const_format (str_replace,      *)
(* str_repeat, str_splice, str_index, str_get), of the format-string       *)
(* parser of its proc macros and of FormattingFlags::tokens.  Byte strings *)
(* are sequences of byte values; Rust's 0-based offset k is element k+1.   *)
(***************************************************************************)
EXTENDS Integers, Sequences, FiniteSets, TLC

\* ------------------------------------------------------------------ bounds
\* Longest input text, string pattern and replacement of str_replace.
MaxInpLen == 4
MaxPatLen == 2
MaxWithLen == 2
\* Width of usize in bits (scaled down from 32/64).
UsizeBits == 4
\* Longest text given to str_repeat.
MaxRepeatLen == 3
\* Most characters in a text given to str_splice / str_index / str_get,
\* and in the text inserted by str_splice.
MaxChars == 3
MaxInsertChars == 1

UsizeMax == 2^UsizeBits - 1

\* ----------------------------------------------------------------- helpers
\* Option<usize>: None is the empty sequence, Some(v) a one-element one.
None == <<>>
Some(v) == <<v>>
is_some(o) == Len(o) = 1
unwrap(o) == o[1]

\* All sequences over S of length at most n.
SeqsUpTo(S, n) == UNION {[1..k -> S] : k \in 0..n}

\* Rust's s[a..b] on 0-based offsets a <= b <= s.len().
Slice(s, a, b) == SubSeq(s, a + 1, b)

\* ============================================================ str_replace
\* Bytes the texts, patterns and replacements are drawn from (ASCII).
ReplaceBytes == {97, 98}
\* An ASCII byte that occurs in no text.
AbsentByte == {99}

AsciiByte(b) == [kind |-> "AsciiByte", byte |-> b, str |-> <<>>]
Str(s) == [kind |-> "Str", byte |-> 0, str |-> s]

ReplaceInputs ==
    {AsciiByte(b) : b \in ReplaceBytes \cup AbsentByte}
        \cup {Str(s) : s \in SeqsUpTo(ReplaceBytes, MaxPatLen)}

\* Whether needle occurs in haystack at 0-based offset p.
occurs_at(haystack, needle, p) ==
    /\ p + Len(needle) <= Len(haystack)
    /\ \A k \in 1..Len(needle) : haystack[p + k] = needle[k]

\* bytes_find(left, right, from): the lowest offset >= from at which right
\* occurs in left, or None.  An empty needle never matches; the callers
\* special-case it.
bytes_find(left, right, from) ==
    LET found == {p \in from..(Len(left) - Len(right)) : occurs_at(left, right, p)}
    IN  IF right = <<>> \/ found = {} THEN None
        ELSE Some(CHOOSE p \in found : \A q \in found : p <= q)

\* The AsciiByte arm of str_replace_length: iter_copy_slice over inp from
\* 0-based position k, accumulating out_len.
RECURSIVE length_byte_loop(_, _, _, _, _)
length_byte_loop(inp_, byte, replaced_len, k, out_len) ==
    IF k >= Len(inp_) THEN out_len
    ELSE length_byte_loop(inp_, byte, replaced_len, k + 1,
            out_len + (IF inp_[k + 1] = byte THEN replaced_len ELSE 1))

\* Mutant of length_str_loop: the search resumes one byte after the start of
\* the previous match, so overlapping occurrences are counted.
RECURSIVE length_str_loop_overlapping(_, _, _, _, _)
length_str_loop_overlapping(inp_, str, replaced_len, i_, out_len) ==
    LET m == bytes_find(inp_, str, i_)
    IN  IF is_some(m)
        THEN length_str_loop_overlapping(inp_, str, replaced_len, unwrap(m) + 1,
                out_len + (unwrap(m) - i_) + replaced_len)
        ELSE out_len + (Len(inp_) - i_)

\* The Str arm of str_replace_length: the while-let loop over bytes_find.
RECURSIVE length_str_loop(_, _, _, _, _)
length_str_loop(inp_, str, replaced_len, i_, out_len) ==
    LET m == bytes_find(inp_, str, i_)
    IN  IF is_some(m)
        THEN length_str_loop(inp_, str, replaced_len, unwrap(m) + Len(str),
                out_len + (unwrap(m) - i_) + replaced_len)
        ELSE out_len + (Len(inp_) - i_)

\* Mutant of str_replace_length: the AsciiByte arm counts one byte for every
\* input byte, matched or not (the two passes drift apart).
str_replace_length_drift(inp_, r_, replaced_with_) ==
    IF r_.kind = "AsciiByte"
    THEN Len(inp_)
    ELSE IF r_.str = <<>>
         THEN Len(inp_)
         ELSE length_str_loop(inp_, r_.str, Len(replaced_with_), 0, 0)

\* Mutant of str_replace_length: the empty string pattern is counted the way
\* std's str::replace treats it, one replacement around every byte.
str_replace_length_std_empty(inp_, r_, replaced_with_) ==
    IF r_.kind = "AsciiByte"
    THEN length_byte_loop(inp_, r_.byte, Len(replaced_with_), 0, 0)
    ELSE IF r_.str = <<>>
         THEN Len(inp_) + (Len(inp_) + 1) * Len(replaced_with_)
         ELSE length_str_loop(inp_, r_.str, Len(replaced_with_), 0, 0)

str_replace_length(inp_, r_, replaced_with_) ==
    IF r_.kind = "AsciiByte"
    THEN length_byte_loop(inp_, r_.byte, Len(replaced_with_), 0, 0)
    ELSE IF r_.str = <<>>
         THEN Len(inp_)
         ELSE length_str_loop(inp_, r_.str, Len(replaced_with_), 0, 0)

VARIABLES
    inp,            \* str_replace: the text
    r,              \* str_replace: the pattern (ReplaceInput)
    replaced_with,  \* str_replace: the replacement
    L,              \* the const generic buffer length
    out,            \* the output buffer [u8; L]
    out_i,          \* next index written in out
    i,              \* scan position in inp
    j,              \* position of the inner copy loop
    next_match,     \* the match bytes_find returned
    pc              \* position in str_replace

replaceVars == <<inp, r, replaced_with, L, out, out_i, i, j, next_match, pc>>

ReplaceInit ==
    /\ inp \in SeqsUpTo(ReplaceBytes, MaxInpLen)
    /\ r \in ReplaceInputs
    /\ replaced_with \in SeqsUpTo(ReplaceBytes, MaxWithLen)
    /\ L = 0
    /\ out = <<>>
    /\ out_i = 0
    /\ i = 0
    /\ j = 0
    /\ next_match = 0
    /\ pc = "macro"

ReplaceIdle ==
    /\ inp = <<>>
    /\ r = Str(<<>>)
    /\ replaced_with = <<>>
    /\ L = 0
    /\ out = <<>>
    /\ out_i = 0
    /\ i = 0
    /\ j = 0
    /\ next_match = 0
    /\ pc = "idle"

\* str_replace!: L is str_replace_length's result, and str_replace::<L>
\* starts on a zeroed buffer with the arm the pattern selects.
str_replace_macro ==
    /\ pc = "macro"
    /\ L' = str_replace_length(inp, r, replaced_with)
    /\ out' = [k \in 1..str_replace_length(inp, r, replaced_with) |-> 0]
    /\ out_i' = 0
    /\ i' = 0
    /\ pc' = IF r.kind = "AsciiByte" THEN "byte_loop"
             ELSE IF r.str = <<>> THEN "empty_copy" ELSE "find"
    /\ UNCHANGED <<inp, r, replaced_with, j, next_match>>

\* write_byte!: out[out_i] = byte; out_i += 1.  An index out of the buffer
\* panics.
write_byte(byte, next_pc) ==
    IF out_i < L
    THEN /\ out' = [out EXCEPT ![out_i + 1] = byte]
         /\ out_i' = out_i + 1
         /\ pc' = next_pc
    ELSE /\ pc' = "panic"
         /\ UNCHANGED <<out, out_i>>

\* The AsciiByte arm: one iteration of iter_copy_slice over inp.
byte_loop ==
    /\ pc = "byte_loop"
    /\ IF i >= Len(inp)
       THEN /\ pc' = "done"
            /\ UNCHANGED <<out, out_i, i, j>>
       ELSE IF inp[i + 1] = r.byte
            THEN /\ pc' = "write_replaced"
                 /\ j' = 0
                 /\ UNCHANGED <<out, out_i, i>>
            ELSE /\ write_byte(inp[i + 1], "byte_loop")
                 /\ i' = i + 1
                 /\ UNCHANGED j
    /\ UNCHANGED <<inp, r, replaced_with, L, next_match>>

\* write_replaced!: one iteration of iter_copy_slice over replaced_with;
\* at its end the enclosing loop goes on.
write_replaced ==
    /\ pc = "write_replaced"
    /\ IF j < Len(replaced_with)
       THEN /\ write_byte(replaced_with[j + 1], "write_replaced")
            /\ j' = j + 1
            /\ UNCHANGED i
       ELSE /\ IF r.kind = "AsciiByte"
               THEN i' = i + 1 /\ pc' = "byte_loop"
               ELSE i' = next_match + Len(r.str) /\ pc' = "find"
            /\ UNCHANGED <<out, out_i, j>>
    /\ UNCHANGED <<inp, r, replaced_with, L, next_match>>

\* The empty string pattern: copy inp, then return out.
empty_copy ==
    /\ pc = "empty_copy"
    /\ IF i < Len(inp)
       THEN /\ write_byte(inp[i + 1], "empty_copy")
            /\ i' = i + 1
       ELSE /\ pc' = "done"
            /\ UNCHANGED <<out, out_i, i>>
    /\ UNCHANGED <<inp, r, replaced_with, L, j, next_match>>

\* while let Some(next_match) = bytes_find(inp, str, i)
find ==
    /\ pc = "find"
    /\ LET m == bytes_find(inp, r.str, i)
       IN  IF is_some(m)
           THEN next_match' = unwrap(m) /\ pc' = "gap"
           ELSE next_match' = next_match /\ pc' = "tail"
    /\ j' = i
    /\ UNCHANGED <<inp, r, replaced_with, L, out, out_i, i>>

\* __for_range!{j in i..next_match => write_byte!(inp[j])}
gap ==
    /\ pc = "gap"
    /\ IF j < next_match
       THEN /\ write_byte(inp[j + 1], "gap")
            /\ j' = j + 1
       ELSE /\ pc' = "write_replaced"
            /\ j' = 0
            /\ UNCHANGED <<out, out_i>>
    /\ UNCHANGED <<inp, r, replaced_with, L, i, next_match>>

\* __for_range!{j in i..inp.len() => write_byte!(inp[j])}
tail ==
    /\ pc = "tail"
    /\ IF j < Len(inp)
       THEN /\ write_byte(inp[j + 1], "tail")
            /\ j' = j + 1
       ELSE /\ pc' = "done"
            /\ UNCHANGED <<out, out_i, j>>
    /\ UNCHANGED <<inp, r, replaced_with, L, i, next_match>>

\* ------------------------------------------------------- str_replace claims
\* The bytes a pattern stands for: an ASCII byte b is the one-byte string b.
pattern_bytes(r_) == IF r_.kind = "AsciiByte" THEN <<r_.byte>> ELSE r_.str

\* The number of leftmost, non-overlapping occurrences of P in T from offset
\* from on, counted position by position.
RECURSIVE occurrences(_, _, _)
occurrences(T, P, from) ==
    IF from + Len(P) > Len(T) THEN 0
    ELSE IF occurs_at(T, P, from)
         THEN 1 + occurrences(T, P, from + Len(P))
         ELSE occurrences(T, P, from + 1)

\* T from offset from on, with those occurrences of P replaced by R.
RECURSIVE replaced(_, _, _, _)
replaced(T, P, R, from) ==
    IF from >= Len(T) THEN <<>>
    ELSE IF occurs_at(T, P, from)
         THEN R \o replaced(T, P, R, from + Len(P))
         ELSE <<T[from + 1]>> \o replaced(T, P, R, from + 1)

\* C1: with L = str_replace_length(text, pattern, replacement), str_replace
\* never writes at an index >= L (it never panics), and has written exactly
\* L bytes when it returns.
C1_ExactFill ==
    /\ pc # "panic"
    /\ out_i <= L
    /\ Len(out) = L
    /\ pc = "done" => out_i = L

\* C1 witness: a string pattern was replaced and changed the length.
C1_Witness ==
    /\ pc = "done"
    /\ r.kind = "Str"
    /\ r.str # <<>>
    /\ L > Len(inp)
    /\ out_i = L

\* C2: for a non-empty pattern P (a string, or an ASCII byte read as a
\* one-byte string) found k times leftmost and non-overlapping in T,
\* L = T.len() - k*P.len() + k*R.len(), and str_replace returns T with those
\* k occurrences replaced by R and the other bytes copied in order.
C2_ReplaceExpected ==
    LET P == pattern_bytes(r)
        k == occurrences(inp, P, 0)
    IN  (P # <<>>) =>
            /\ pc \notin {"macro", "idle"} =>
                   L = Len(inp) - k * Len(P) + k * Len(replaced_with)
            /\ pc = "done" => out = replaced(inp, P, replaced_with, 0)

\* C2 witness: a two-byte pattern that occurs twice, once the result is
\* returned (with overlapping candidates, as in "aaaa" for "aa").
C2_Witness ==
    /\ pc = "done"
    /\ r.kind = "Str"
    /\ Len(r.str) = 2
    /\ occurrences(inp, r.str, 0) = 2
    /\ occurs_at(inp, r.str, 1)
    /\ replaced_with # <<>>

\* C3: with the empty string pattern, L = T.len(), the result is T, the
\* replacement is never written and the find loop is never entered.
C3_EmptyPatternIdentity ==
    (r = Str(<<>>)) =>
        /\ pc \in {"idle", "macro", "empty_copy", "done"}
        /\ pc \in {"empty_copy", "done"} =>
               /\ L = Len(inp)
               /\ out_i = i
               /\ Slice(out, 0, out_i) = Slice(inp, 0, i)
        /\ pc = "done" => out = inp

\* C3 witness: a text of two bytes or more was copied under the empty
\* pattern with a non-empty replacement.
C3_Witness ==
    /\ pc = "done"
    /\ r = Str(<<>>)
    /\ Len(inp) >= 2
    /\ replaced_with # <<>>

\* ============================================================= str_repeat
VARIABLES
    STR,        \* str_repeat!: STR_OSRCTFL4A, the text
    TIMES,      \* str_repeat!: TIMES_OSRCTFL4A
    STR_LEN,    \* const STR_LEN
    OUT_LEN,    \* const OUT_LEN
    OUT_B,      \* const OUT_B, the array being built
    OUT_S,      \* const OUT_S, the resulting string
    repeat_pc   \* the const item being evaluated

repeatVars == <<STR, TIMES, STR_LEN, OUT_LEN, OUT_B, OUT_S, repeat_pc>>

RepeatInit ==
    /\ STR \in SeqsUpTo(ReplaceBytes, MaxRepeatLen)
    /\ TIMES \in 0..UsizeMax
    /\ STR_LEN = 0
    /\ OUT_LEN = 0
    /\ OUT_B = <<>>
    /\ OUT_S = <<>>
    /\ repeat_pc = "STR_LEN"

RepeatIdle ==
    /\ STR = <<>>
    /\ TIMES = 0
    /\ STR_LEN = 0
    /\ OUT_LEN = 0
    /\ OUT_B = <<>>
    /\ OUT_S = <<>>
    /\ repeat_pc = "idle"

\* Mutant of usize_mul: the product wraps modulo 2^UsizeBits.
usize_mul_wrapping(a, b) == Some((a * b) % (UsizeMax + 1))

\* a * b on usize in a const item: overflow is a compile-time error (None).
usize_mul(a, b) == IF a * b > UsizeMax THEN None ELSE Some(a * b)

\* const STR_LEN: usize = STR_OSRCTFL4A.len();
repeat_str_len ==
    /\ repeat_pc = "STR_LEN"
    /\ STR_LEN' = Len(STR)
    /\ repeat_pc' = "OUT_LEN"
    /\ UNCHANGED <<STR, TIMES, OUT_LEN, OUT_B, OUT_S>>

\* const OUT_LEN: usize = STR_LEN * TIMES_OSRCTFL4A;
repeat_out_len ==
    /\ repeat_pc = "OUT_LEN"
    /\ LET product == usize_mul(STR_LEN, TIMES)
       IN  IF is_some(product)
           THEN OUT_LEN' = unwrap(product) /\ repeat_pc' = "OUT_B"
           ELSE OUT_LEN' = OUT_LEN /\ repeat_pc' = "error"
    /\ UNCHANGED <<STR, TIMES, STR_LEN, OUT_B, OUT_S>>

\* *transmute::<*const u8, &[u8; STR_LEN]>(ptr): the first STR_LEN bytes.
repeat_chunk == Slice(STR, 0, STR_LEN)

\* Mutant of repeat_out_b: the array holds one copy too few.
repeat_out_b_short ==
    /\ repeat_pc = "OUT_B"
    /\ IF Len(OUT_B) = 0 /\ STR_LEN * TIMES # OUT_LEN
       THEN repeat_pc' = "error" /\ UNCHANGED OUT_B
       ELSE IF Len(OUT_B) + STR_LEN < STR_LEN * TIMES
            THEN OUT_B' = OUT_B \o repeat_chunk /\ UNCHANGED repeat_pc
            ELSE repeat_pc' = "OUT_S" /\ UNCHANGED OUT_B
    /\ UNCHANGED <<STR, TIMES, STR_LEN, OUT_LEN, OUT_S>>

\* const OUT_B: the array [chunk; TIMES], one copy a step, transmuted from
\* [[u8; STR_LEN]; TIMES] to [u8; OUT_LEN] (types of different sizes do not
\* compile).
repeat_out_b ==
    /\ repeat_pc = "OUT_B"
    /\ IF Len(OUT_B) = 0 /\ STR_LEN * TIMES # OUT_LEN
       THEN repeat_pc' = "error" /\ UNCHANGED OUT_B
       ELSE IF Len(OUT_B) < STR_LEN * TIMES
            THEN OUT_B' = OUT_B \o repeat_chunk /\ UNCHANGED repeat_pc
            ELSE repeat_pc' = "OUT_S" /\ UNCHANGED OUT_B
    /\ UNCHANGED <<STR, TIMES, STR_LEN, OUT_LEN, OUT_S>>

\* const OUT_S: &str = __priv_transmute_bytes_to_str!(OUT_B): the same bytes.
repeat_out_s ==
    /\ repeat_pc = "OUT_S"
    /\ OUT_S' = OUT_B
    /\ repeat_pc' = "done"
    /\ UNCHANGED <<STR, TIMES, STR_LEN, OUT_LEN, OUT_B>>

\* -------------------------------------------------------- str_repeat claims
\* C4: when T.len() * n does not overflow, str_repeat(T, n) does not fail,
\* has length T.len() * n, and each of its n chunks of T.len() bytes is T;
\* str_repeat(T, 0) is the empty string.
C4_RepeatChunks ==
    (Len(STR) * TIMES <= UsizeMax) =>
        /\ repeat_pc # "error"
        /\ repeat_pc = "done" =>
               /\ Len(OUT_S) = Len(STR) * TIMES
               /\ \A c \in 0..(TIMES - 1) :
                      Slice(OUT_S, c * Len(STR), (c + 1) * Len(STR)) = STR
               /\ TIMES = 0 => OUT_S = <<>>

\* C4 witness: a text of two bytes or more was repeated three times or more.
C4_Witness ==
    /\ repeat_pc = "done"
    /\ Len(STR) >= 2
    /\ TIMES >= 3
    /\ Len(OUT_S) = Len(STR) * TIMES

\* C5: when T.len() * times exceeds the maximum of usize, str_repeat fails
\* at OUT_LEN, before OUT_B is built; a string is only ever returned with
\* the true product as its length.
C5_RepeatOverflowFails ==
    /\ (Len(STR) * TIMES > UsizeMax) =>
           /\ repeat_pc \in {"STR_LEN", "OUT_LEN", "error"}
           /\ OUT_B = <<>>
           /\ OUT_S = <<>>
    /\ repeat_pc = "done" => Len(OUT_S) = Len(STR) * TIMES

\* C5 witness: the product overflowed and the macro failed.
C5_Witness ==
    /\ repeat_pc = "error"
    /\ Len(STR) * TIMES > UsizeMax
    /\ (Len(STR) * TIMES) % (UsizeMax + 1) > 0
    /\ OUT_B = <<>>

\* ======================================== str_splice / str_index / str_get
\* The characters of the texts: "A" and the three-byte character U+8C46.
Chars == {<<65>>, <<232, 177, 134>>}

RECURSIVE concat(_)
concat(ss) == IF ss = <<>> THEN <<>> ELSE Head(ss) \o concat(Tail(ss))

\* The UTF-8 texts of at most n characters.
Texts(n) == {concat(cs) : cs \in SeqsUpTo(Chars, n)}

\* The index arguments: usize, Range, RangeTo, RangeFrom, RangeInclusive,
\* RangeToInclusive and RangeFull.
usize_index(a) == [kind |-> "usize", start |-> a, end |-> 0]
Range(a, b) == [kind |-> "Range", start |-> a, end |-> b]
RangeTo(b) == [kind |-> "RangeTo", start |-> 0, end |-> b]
RangeFrom(a) == [kind |-> "RangeFrom", start |-> a, end |-> 0]
RangeInclusive(a, b) == [kind |-> "RangeInclusive", start |-> a, end |-> b]
RangeToInclusive(b) == [kind |-> "RangeToInclusive", start |-> 0, end |-> b]
RangeFull == [kind |-> "RangeFull", start |-> 0, end |-> 0]

\* The offsets tried on a text: all up to one past its end, and usize::MAX.
Offsets(text) == 0..(Len(text) + 1) \cup {UsizeMax}

IndexSpecs(text) ==
    {usize_index(a) : a \in Offsets(text)}
        \cup {Range(a, b) : a \in Offsets(text), b \in Offsets(text)}
        \cup {RangeTo(b) : b \in Offsets(text)}
        \cup {RangeFrom(a) : a \in Offsets(text)}
        \cup {RangeInclusive(a, b) : a \in Offsets(text), b \in Offsets(text)}
        \cup {RangeToInclusive(b) : b \in Offsets(text)}
        \cup {RangeFull}

\* A UTF-8 continuation byte: top two bits 10.
is_continuation_byte(b) == b >= 128 /\ b < 192

\* is_char_boundary(text, offset): offset is 0, text.len(), or the byte at
\* offset is no continuation byte.
is_char_boundary(text, offset) ==
    \/ offset = 0
    \/ offset = Len(text)
    \/ offset < Len(text) /\ ~is_continuation_byte(text[offset + 1])

saturating_add(a, b) == IF a + b > UsizeMax THEN UsizeMax ELSE a + b

\* The end of the character that starts at a usize index: the first char
\* boundary after it.
RECURSIVE char_end(_, _)
char_end(text, e) ==
    IF e < Len(text) /\ ~is_char_boundary(text, e)
    THEN char_end(text, saturating_add(e, 1))
    ELSE e

\* An index argument resolved against a text to (start, end), unclamped.
resolve(text, index_) ==
    CASE index_.kind = "usize" ->
            [start |-> index_.start,
             end |-> char_end(text, saturating_add(index_.start, 1))]
      [] index_.kind = "Range" ->
            [start |-> index_.start, end |-> index_.end]
      [] index_.kind = "RangeTo" ->
            [start |-> 0, end |-> index_.end]
      [] index_.kind = "RangeFrom" ->
            [start |-> index_.start, end |-> Len(text)]
      [] index_.kind = "RangeInclusive" ->
            [start |-> index_.start, end |-> saturating_add(index_.end, 1)]
      [] index_.kind = "RangeToInclusive" ->
            [start |-> 0, end |-> saturating_add(index_.end, 1)]
      [] index_.kind = "RangeFull" ->
            [start |-> 0, end |-> Len(text)]

\* IndexValidity of a resolved span: valid only when start <= end <=
\* text.len() and both lie on char boundaries.
index_validity(text, span) ==
    IF /\ span.start <= span.end
       /\ span.end <= Len(text)
       /\ is_char_boundary(text, span.start)
       /\ is_char_boundary(text, span.end)
    THEN "Valid"
    ELSE "Invalid"

\* IndexValidity::is_valid; assert_valid fails exactly when it is false.
is_valid(validity) == validity = "Valid"

\* StrIndexArgsConv(string, index).conv(): the validity and, when valid, the
\* region the span selects.
StrIndexArgsConv(string_, index_) ==
    LET span == resolve(string_, index_)
        ok == is_valid(index_validity(string_, span))
    IN  [str |-> string_,
         index_validity |-> index_validity(string_, span),
         used_rstart |-> IF ok THEN span.start ELSE 0,
         used_rlen |-> IF ok THEN span.end - span.start ELSE 0]

\* StrSplceArgsConv(string, index, insert).conv(): the same, with the suffix
\* and the inserted text's lengths.
StrSplceArgsConv(string_, index_, insert_) ==
    LET span == resolve(string_, index_)
        ok == is_valid(index_validity(string_, span))
    IN  [str |-> string_,
         insert |-> insert_,
         index_validity |-> index_validity(string_, span),
         used_rstart |-> IF ok THEN span.start ELSE 0,
         used_rlen |-> IF ok THEN span.end - span.start ELSE 0,
         suffix_len |-> IF ok THEN Len(string_) - span.end ELSE 0,
         insert_len |-> Len(insert_),
         out_len |-> IF ok THEN span.start + Len(insert_) + (Len(string_) - span.end)
                     ELSE Len(insert_)]

\* The bytes at a pointer read as DecomposedString<[u8; a], [u8; b], [u8; c]>.
DecomposedString(bytes, a, b, c) ==
    [prefix |-> Slice(bytes, 0, a),
     middle |-> Slice(bytes, a, a + b),
     suffix |-> Slice(bytes, a + b, a + b + c)]

\* Mutant of str_splice: the suffix is read right after the prefix, the
\* removed region not skipped.
str_splice_suffix_after_prefix(string_, index_, insert_) ==
    LET P == StrSplceArgsConv(string_, index_, insert_)
    IN  IF ~is_valid(P.index_validity)
        THEN [st |-> "fail", insert |-> insert_, output |-> <<>>, removed |-> <<>>]
        ELSE LET input == DecomposedString(P.str, P.used_rstart, P.used_rlen, P.suffix_len)
                 middle == Slice(P.insert, 0, P.insert_len)
                 suffix == Slice(P.str, P.used_rstart, P.used_rstart + P.suffix_len)
             IN  [st |-> "ok",
                  insert |-> insert_,
                  output |-> Slice(input.prefix \o middle \o suffix, 0, P.out_len),
                  removed |-> input.middle]

\* Mutant of str_splice: the index is not asserted valid.
str_splice_unchecked(string_, index_, insert_) ==
    LET P == StrSplceArgsConv(string_, index_, insert_)
        input == DecomposedString(P.str, P.used_rstart, P.used_rlen, P.suffix_len)
        middle == Slice(P.insert, 0, P.insert_len)
    IN  [st |-> "ok",
         insert |-> insert_,
         output |-> Slice(input.prefix \o middle \o input.suffix, 0, P.out_len),
         removed |-> input.middle]

\* Mutant of str_splice: the removed text is taken from the inserted text
\* instead of the input's middle.
str_splice_removed_from_insert(string_, index_, insert_) ==
    LET P == StrSplceArgsConv(string_, index_, insert_)
    IN  IF ~is_valid(P.index_validity)
        THEN [st |-> "fail", insert |-> insert_, output |-> <<>>, removed |-> <<>>]
        ELSE LET input == DecomposedString(P.str, P.used_rstart, P.used_rlen, P.suffix_len)
                 middle == Slice(P.insert, 0, P.insert_len)
             IN  [st |-> "ok",
                  insert |-> insert_,
                  output |-> Slice(input.prefix \o middle \o input.suffix, 0, P.out_len),
                  removed |-> middle]

\* str_splice!: fails on an invalid index; else the output is the input's
\* prefix, the inserted text and the input's suffix, read as out_len bytes,
\* and the removed text is the input's middle.
str_splice(string_, index_, insert_) ==
    LET P == StrSplceArgsConv(string_, index_, insert_)
    IN  IF ~is_valid(P.index_validity)
        THEN [st |-> "fail", insert |-> insert_, output |-> <<>>, removed |-> <<>>]
        ELSE LET input == DecomposedString(P.str, P.used_rstart, P.used_rlen, P.suffix_len)
                 middle == Slice(P.insert, 0, P.insert_len)
             IN  [st |-> "ok",
                  insert |-> insert_,
                  output |-> Slice(input.prefix \o middle \o input.suffix, 0, P.out_len),
                  removed |-> input.middle]

\* Mutant of str_index: the index is not asserted valid.
str_index_unchecked(string_, index_) ==
    LET P == StrIndexArgsConv(string_, index_)
    IN  [st |-> "ok",
         val |-> DecomposedString(P.str, P.used_rstart, P.used_rlen, 0).middle]

\* str_index!: fails on an invalid index; else the middle region.
str_index(string_, index_) ==
    LET P == StrIndexArgsConv(string_, index_)
    IN  IF ~is_valid(P.index_validity)
        THEN [st |-> "fail", val |-> <<>>]
        ELSE [st |-> "ok",
              val |-> DecomposedString(P.str, P.used_rstart, P.used_rlen, 0).middle]

\* Mutant of str_get: Some is returned whatever the validity.
str_get_unchecked(string_, index_) ==
    LET P == StrIndexArgsConv(string_, index_)
    IN  [st |-> "Some",
         val |-> DecomposedString(P.str, P.used_rstart, P.used_rlen, 0).middle]

\* str_get!: Some(middle region) when the index is valid, else None.
str_get(string_, index_) ==
    LET P == StrIndexArgsConv(string_, index_)
    IN  IF is_valid(P.index_validity)
        THEN [st |-> "Some",
              val |-> DecomposedString(P.str, P.used_rstart, P.used_rlen, 0).middle]
        ELSE [st |-> "None", val |-> <<>>]

VARIABLES
    string,         \* the text given to str_index!, str_get! and str_splice!
    index,          \* the index argument given to them
    index_out,      \* str_index!'s result
    get_out,        \* str_get!'s result
    splice_out,     \* str_splice!'s result, with the text inserted
    back_range,     \* the range of the second str_splice!
    back_out        \* its result: removed spliced back into output

indexVars == <<string, index, index_out, get_out, splice_out, back_range, back_out>>

pending_out == [st |-> "pending", val |-> <<>>]
pending_splice ==
    [st |-> "pending", insert |-> <<>>, output |-> <<>>, removed |-> <<>>]

IndexInit ==
    /\ string \in Texts(MaxChars)
    /\ index \in IndexSpecs(string)
    /\ index_out = pending_out
    /\ get_out = pending_out
    /\ splice_out = pending_splice
    /\ back_range = RangeFull
    /\ back_out = pending_splice

IndexIdle ==
    /\ string = <<>>
    /\ index = RangeFull
    /\ index_out = pending_out
    /\ get_out = pending_out
    /\ splice_out = pending_splice
    /\ back_range = RangeFull
    /\ back_out = pending_splice

str_index_macro ==
    /\ index_out.st = "pending"
    /\ index_out' = str_index(string, index)
    /\ UNCHANGED <<string, index, get_out, splice_out, back_range, back_out>>

str_get_macro ==
    /\ get_out.st = "pending"
    /\ get_out' = str_get(string, index)
    /\ UNCHANGED <<string, index, index_out, splice_out, back_range, back_out>>

str_splice_macro ==
    /\ splice_out.st = "pending"
    /\ \E insert \in Texts(MaxInsertChars) :
           splice_out' = str_splice(string, index, insert)
    /\ UNCHANGED <<string, index, index_out, get_out, back_range, back_out>>

\* A second str_splice! puts the removed text back into the output, over
\* the span the index resolved to or over the span the inserted text took.
str_splice_back ==
    /\ splice_out.st = "ok"
    /\ back_out.st = "pending"
    /\ LET span == resolve(string, index)
       IN  \E range \in {Range(span.start, span.end),
                         Range(span.start, span.start + Len(splice_out.insert))} :
               /\ back_range' = range
               /\ back_out' = str_splice(splice_out.output, range, splice_out.removed)
    /\ UNCHANGED <<string, index, index_out, get_out, splice_out>>

\* --------------------------------- str_splice / str_index / str_get claims
\* The span the index argument resolves to on the text.
span == resolve(string, index)

\* The text has a three-byte character at byte offsets [3,6).
three_byte_char_at_3 ==
    /\ Len(string) >= 6
    /\ is_char_boundary(string, 3)
    /\ ~is_char_boundary(string, 4)
    /\ ~is_char_boundary(string, 5)
    /\ is_char_boundary(string, 6)

\* Each macro has failed (str_get: returned None), where it has run.
all_fail ==
    /\ index_out.st \in {"pending", "fail"}
    /\ splice_out.st \in {"pending", "fail"}
    /\ get_out.st \in {"pending", "None"}

\* Each macro has succeeded (str_get: returned Some), where it has run.
all_succeed ==
    /\ index_out.st \in {"pending", "ok"}
    /\ splice_out.st \in {"pending", "ok"}
    /\ get_out.st \in {"pending", "Some"}

all_ran ==
    /\ index_out.st # "pending"
    /\ splice_out.st # "pending"
    /\ get_out.st # "pending"

\* C6: for an index that resolves validly to (start, end), str_splice
\* succeeds with output = T[0..start] ++ R ++ T[end..] and removed =
\* T[start..end]; the prefix, middle and suffix lengths sum to T.len() and
\* output.len() = start + R.len() + (T.len() - end).
C6_SpliceExpected ==
    LET R == splice_out.insert
        P == StrSplceArgsConv(string, index, R)
    IN  (is_valid(index_validity(string, span)) /\ splice_out.st # "pending") =>
            /\ splice_out.st = "ok"
            /\ splice_out.output =
                   Slice(string, 0, span.start) \o R \o Slice(string, span.end, Len(string))
            /\ splice_out.removed = Slice(string, span.start, span.end)
            /\ P.used_rstart + P.used_rlen + P.suffix_len = Len(string)
            /\ Len(splice_out.output) = span.start + Len(R) + (Len(string) - span.end)

\* C6 witness: a closed range strictly inside the text was replaced by a
\* text of another length.
C6_Witness ==
    /\ splice_out.st = "ok"
    /\ index.kind = "RangeInclusive"
    /\ span.start > 0
    /\ span.end < Len(string)
    /\ splice_out.removed # <<>>
    /\ splice_out.insert # <<>>
    /\ Len(splice_out.insert) # Len(splice_out.removed)

\* C7 as claimed: splicing removed back into output over the same resolved
\* span (start, end) succeeds and reproduces T.
C7_RoundTripSameSpan ==
    (back_out.st # "pending" /\ back_range = Range(span.start, span.end)) =>
        /\ back_out.st = "ok"
        /\ back_out.output = string

\* C7 as amended: splicing removed back into output over the span the
\* inserted text occupies there, (start, start + R.len()), succeeds,
\* reproduces T and removes R.
C7_RoundTripInsertedSpan ==
    (/\ back_out.st # "pending"
     /\ back_range = Range(span.start, span.start + Len(splice_out.insert))) =>
        /\ back_out.st = "ok"
        /\ back_out.output = string
        /\ back_out.removed = splice_out.insert

\* C7 witness: a round trip where the inserted text and the removed text
\* differ in length.
C7_Witness ==
    /\ back_out.st = "ok"
    /\ back_range = Range(span.start, span.start + Len(splice_out.insert))
    /\ Len(splice_out.insert) # span.end - span.start
    /\ splice_out.removed # <<>>
    /\ back_out.output = string

\* C8: when str_index succeeds with v, str_get returns Some(v); when
\* str_index fails, str_get returns None; str_get itself never fails.
C8_IndexGetAgree ==
    /\ get_out.st \in {"pending", "Some", "None"}
    /\ (index_out.st # "pending" /\ get_out.st # "pending") =>
           /\ index_out.st = "ok" =>
                  get_out.st = "Some" /\ get_out.val = index_out.val
           /\ index_out.st = "fail" => get_out.st = "None"

\* C8 witness: a span within the text that is off a char boundary: str_index
\* failed and str_get returned None.
C8_Witness ==
    /\ index_out.st = "fail"
    /\ get_out.st = "None"
    /\ span.start <= span.end
    /\ span.end <= Len(string)

\* C9: on a text with a three-byte character at [3,6), an index of any kind
\* whose resolved start or end is 4 or 5 makes str_index and str_splice fail
\* and str_get return None; one whose resolved start and end are char
\* boundaries, at least one of them 3 or 6, succeeds.
C9_MultiByteBoundary ==
    three_byte_char_at_3 =>
        /\ (span.start \in {4, 5} \/ span.end \in {4, 5}) => all_fail
        /\ (/\ span.start \in {0, 3, 6, Len(string)}
            /\ span.end \in {0, 3, 6, Len(string)}
            /\ span.start \in {3, 6} \/ span.end \in {3, 6}
            /\ span.start <= span.end) => all_succeed

\* C9 witness: the closed range 3..=4, whose end resolves to 5, failed in
\* all three macros.
C9_Witness ==
    /\ three_byte_char_at_3
    /\ index = RangeInclusive(3, 4)
    /\ all_ran
    /\ all_fail

\* C10: an index whose resolved span does not satisfy start <= end <=
\* text.len() makes str_index and str_splice fail and str_get return None;
\* whenever a macro reports success, start <= end <= text.len().
C10_NoClamp ==
    LET in_range == span.start <= span.end /\ span.end <= Len(string)
    IN  /\ ~in_range => all_fail
        /\ (\/ index_out.st = "ok"
            \/ splice_out.st = "ok"
            \/ get_out.st = "Some") => in_range

\* C10 witness: a range that starts inside the text and ends far beyond it
\* failed in all three macros.
C10_Witness ==
    /\ index.kind = "Range"
    /\ index.start > 0
    /\ index.start < Len(string)
    /\ is_char_boundary(string, index.start)
    /\ index.end = UsizeMax
    /\ all_ran
    /\ all_fail

\* ===================================================== format_str_parsing
\* Templates are UTF-8 byte strings.  The ASCII bytes the parser looks for:
\* '{', '}', ':', '?' and '_'.
OpenBrace == 123
CloseBrace == 125
Colon == 58
QuestionMark == 63
Underscore == 95

\* Most characters in a template.
MaxTemplateChars == 4

\* Characters the templates are drawn from: the five above, the digit 9,
\* the letter a and the two-byte letter e-acute.
TemplateChars ==
    {<<OpenBrace>>, <<CloseBrace>>, <<Colon>>, <<QuestionMark>>,
     <<Underscore>>, <<57>>, <<97>>, <<195, 169>>}

\* Result<_, ParseError>: Ok(v) carries the value, ParseError the byte
\* offset, the kind and (for the kinds that have one) the offending text.
Ok(v) == [ok |-> TRUE, val |-> v, pos |-> 0, kind |-> "", what |-> <<>>]
ParseError(pos, kind, what) ==
    [ok |-> FALSE, val |-> <<>>, pos |-> pos, kind |-> kind, what |-> what]

\* WhichArg and FmtArg.
Positional(o) == [kind |-> "Positional", index |-> o, ident |-> <<>>]
Ident(s) == [kind |-> "Ident", index |-> None, ident |-> s]
FmtArg(which_arg, formatting) ==
    [which_arg |-> which_arg, formatting |-> formatting]

\* FmtStrComponent::Str and FmtStrComponent::Arg (the arg field of a Str
\* component is a filler).
component_str(s) ==
    [kind |-> "Str", str |-> s, arg |-> FmtArg(Positional(None), "")]
component_arg(a) == [kind |-> "Arg", str |-> <<>>, arg |-> a]

\* Mutant of find_from: the offset found in s[from..] is returned as it is.
find_from_relative(s, c, from) ==
    LET found == {p \in from..(Len(s) - 1) : s[p + 1] = c}
    IN  IF found = {} THEN None
        ELSE Some((CHOOSE p \in found : \A q \in found : p <= q) - from)

\* s[from..].find(c).map(|p| p + from) for an ASCII c: the lowest offset
\* >= from holding the byte c.
find_from(s, c, from) ==
    LET found == {p \in from..(Len(s) - 1) : s[p + 1] = c}
    IN  IF found = {} THEN None
        ELSE Some(CHOOSE p \in found : \A q \in found : p <= q)

\* Whether Rust accepts the slice s[a..b].
slice_ok(s, a, b) ==
    /\ a <= b
    /\ b <= Len(s)
    /\ is_char_boundary(s, a)
    /\ is_char_boundary(s, b)

\* u8::is_ascii_digit.
is_ascii_digit(b) == b >= 48 /\ b <= 57

\* The decimal value of a string of ASCII digits.
RECURSIVE digits_value(_)
digits_value(s) ==
    IF s = <<>> THEN 0
    ELSE 10 * digits_value(SubSeq(s, 1, Len(s) - 1)) + (s[Len(s)] - 48)

\* str::parse::<usize> on a string whose first byte is an ASCII digit:
\* Some(value) when every byte is a digit and the value fits usize.
parse_usize(s) ==
    IF /\ s # <<>>
       /\ \A k \in 1..Len(s) : is_ascii_digit(s[k])
       /\ digits_value(s) <= UsizeMax
    THEN Some(digits_value(s))
    ELSE None

\* str::chars: the characters of s, each as its UTF-8 bytes.
char_width(b) ==
    IF b < 128 THEN 1 ELSE IF b < 224 THEN 2 ELSE IF b < 240 THEN 3 ELSE 4
RECURSIVE str_chars(_)
str_chars(s) ==
    IF s = <<>> THEN <<>>
    ELSE LET w == char_width(s[1])
         IN  <<SubSeq(s, 1, w)>> \o str_chars(SubSeq(s, w + 1, Len(s)))

\* char::is_alphabetic and char::is_alphanumeric on the characters that
\* occur: the ASCII letters, e-acute, and the ASCII digits.
is_alphabetic(ch) ==
    \/ Len(ch) = 1 /\ (ch[1] \in 65..90 \/ ch[1] \in 97..122)
    \/ ch = <<195, 169>>
is_alphanumeric(ch) ==
    is_alphabetic(ch) \/ (Len(ch) = 1 /\ is_ascii_digit(ch[1]))

\* Mutant of parse_ident: a lone '_' is taken as an identifier.
parse_ident_lone_underscore(ident_str, starts_at) ==
    LET ident_chars == str_chars(ident_str)
        first == Head(ident_chars)
        rest == Tail(ident_chars)
    IN  IF \/ (~is_alphabetic(first) /\ first # <<Underscore>>)
           \/ \E k \in 1..Len(rest) :
                  ~is_alphanumeric(rest[k]) /\ rest[k] # <<Underscore>>
        THEN ParseError(starts_at, "NotAnIdent", ident_str)
        ELSE Ok(Ident(ident_str))

\* parse_ident: a non-empty selector that does not start with a digit.
parse_ident(ident_str, starts_at) ==
    LET ident_chars == str_chars(ident_str)
        first == Head(ident_chars)
        rest == Tail(ident_chars)
    IN  IF \/ /\ ~is_alphabetic(first)
              /\ (first # <<Underscore>> \/ Len(ident_str) = 1)
           \/ \E k \in 1..Len(rest) :
                  ~is_alphanumeric(rest[k]) /\ rest[k] # <<Underscore>>
        THEN ParseError(starts_at, "NotAnIdent", ident_str)
        ELSE Ok(Ident(ident_str))

\* parse_which_arg: the selector of a placeholder.
parse_which_arg(input_, starts_at) ==
    IF input_ = <<>> THEN Ok(Positional(None))
    ELSE IF is_ascii_digit(input_[1])
    THEN LET number == parse_usize(input_)
         IN  IF is_some(number) THEN Ok(Positional(Some(unwrap(number))))
             ELSE ParseError(starts_at, "NotANumber", input_)
    ELSE parse_ident(input_, starts_at)

\* parse_formatting: the text after the first ':' of a placeholder.
parse_formatting(input_, starts_at) ==
    IF input_ = <<>> THEN Ok("Display")
    ELSE IF input_ = <<QuestionMark>> THEN Ok("Debug")
    ELSE ParseError(starts_at, "UnknownFormatting", input_)

\* Mutant of parse_fmt_arg: the formatting spec's position is its offset
\* inside the placeholder.
parse_fmt_arg_relative_pos(input_, starts_at) ==
    LET colon == find_from(input_, Colon, 0)
        which_arg_str ==
            Slice(input_, 0, IF is_some(colon) THEN unwrap(colon) ELSE Len(input_))
        formatting_str ==
            IF is_some(colon) THEN Slice(input_, unwrap(colon) + 1, Len(input_))
            ELSE <<>>
        formatting_starts_at ==
            IF is_some(colon) THEN unwrap(colon) + 1 ELSE Len(input_)
        which_arg == parse_which_arg(which_arg_str, starts_at)
        formatting == parse_formatting(formatting_str, formatting_starts_at)
    IN  IF ~which_arg.ok THEN which_arg
        ELSE IF ~formatting.ok THEN formatting
        ELSE Ok(FmtArg(which_arg.val, formatting.val))

\* parse_fmt_arg: the text between '{' and '}', which starts at offset
\* starts_at of the template.  The selector is parsed first, so its error
\* is the one returned when both parts are malformed.
parse_fmt_arg(input_, starts_at) ==
    LET colon == find_from(input_, Colon, 0)
        which_arg_str ==
            Slice(input_, 0, IF is_some(colon) THEN unwrap(colon) ELSE Len(input_))
        formatting_str ==
            IF is_some(colon) THEN Slice(input_, unwrap(colon) + 1, Len(input_))
            ELSE <<>>
        formatting_starts_at ==
            IF is_some(colon) THEN starts_at + unwrap(colon) + 1 ELSE Len(input_)
        which_arg == parse_which_arg(which_arg_str, starts_at)
        formatting == parse_formatting(formatting_str, formatting_starts_at)
    IN  IF ~which_arg.ok THEN which_arg
        ELSE IF ~formatting.ok THEN formatting
        ELSE Ok(FmtArg(which_arg.val, formatting.val))

\* Mutant of push_arg_str: the text is appended even when empty.
push_arg_str_always(list, s) == Append(list, component_str(s))

\* VecExt::push_arg_str: append a Str component unless the text is empty.
push_arg_str(list, s) ==
    IF s # <<>> THEN Append(list, component_str(s)) ELSE list

\* Longer templates: "The {} man", "{{literal}}", "{foo:?}", "{0}{1}" and
\* "{:x}".
TheManTemplate ==
    <<84, 104, 101, 32, OpenBrace, CloseBrace, 32, 109, 97, 110>>
EscapedLiteralTemplate ==
    <<OpenBrace, OpenBrace, 108, 105, 116, 101, 114, 97, 108,
      CloseBrace, CloseBrace>>
FooDebugTemplate ==
    <<OpenBrace, 102, 111, 111, Colon, QuestionMark, CloseBrace>>
ZeroOneTemplate ==
    <<OpenBrace, 48, CloseBrace, OpenBrace, 49, CloseBrace>>
HexTemplate == <<OpenBrace, Colon, 120, CloseBrace>>
\* A placeholder after literal text whose formatting spec holds a second
\* ':': "9{a:a:}".
NestedColonTemplate ==
    <<57, OpenBrace, 97, Colon, 97, Colon, CloseBrace>>
ScenarioTemplates ==
    {TheManTemplate, EscapedLiteralTemplate, FooDebugTemplate,
     ZeroOneTemplate, HexTemplate, NestedColonTemplate}

\* Every template parsed: all strings of at most MaxTemplateChars
\* characters, and the longer ones above.
Templates ==
    {concat(cs) : cs \in SeqsUpTo(TemplateChars, MaxTemplateChars)}
        \cup ScenarioTemplates

\* parse_format_str's argument and locals (input, arg_start, open_pos,
\* components), parse_mid_str's locals (starts_pos, buffer), the value
\* returned, and where the parse is:
\*   "loop"  at the top of parse_format_str's loop
\*   "mid"   in parse_mid_str's while-let on input[arg_start..open_pos]
\*   "open"  parse_mid_str returned Ok(buffer)
\*   "done"  parse_format_str returned
\*   "panic" a slice was out of range or off a char boundary
VARIABLES input, arg_start, open_pos, components, starts_pos, buffer,
          returned, parse_pc

parseVars ==
    <<input, arg_start, open_pos, components, starts_pos, buffer,
      returned, parse_pc>>

\* The value parse_format_str returns: nothing yet, Ok(FormatStr{list}) or
\* Err(ParseError{pos, kind}).
NotReturned ==
    [tag |-> "none", list |-> <<>>, pos |-> 0, kind |-> "", what |-> <<>>]
ReturnOk(list) ==
    [tag |-> "Ok", list |-> list, pos |-> 0, kind |-> "", what |-> <<>>]
ReturnErr(e) ==
    [tag |-> "Err", list |-> <<>>, pos |-> e.pos, kind |-> e.kind,
     what |-> e.what]

ParseInit ==
    /\ input \in Templates
    /\ arg_start = 0
    /\ open_pos = None
    /\ components = <<>>
    /\ starts_pos = 0
    /\ buffer = <<>>
    /\ returned = NotReturned
    /\ parse_pc = "loop"

\* No template is being parsed.
ParseIdle ==
    /\ input = <<>>
    /\ arg_start = 0
    /\ open_pos = None
    /\ components = <<>>
    /\ starts_pos = 0
    /\ buffer = <<>>
    /\ returned = NotReturned
    /\ parse_pc = "idle"

\* The literal run handed to parse_mid_str: input[arg_start..open_pos], or
\* input[arg_start..] when no '{' is left.
mid_str ==
    Slice(input, arg_start,
          IF is_some(open_pos) THEN unwrap(open_pos) ELSE Len(input))

\* Mutant of escaped_close: both braces of the "}}" are copied.
escaped_close_keeps_pair(s, from, after_close) == Slice(s, from, after_close + 1)

\* The text parse_mid_str copies when it meets a "}}": everything from
\* starts_pos up to and including the first '}'.
escaped_close(s, from, after_close) == Slice(s, from, after_close)

\* Mutant of invalid_closed_arg: the offset inside the literal run.
invalid_closed_arg_in_run(starts_at, close_pos) ==
    ParseError(close_pos, "InvalidClosedArg", <<>>)

\* The error of parse_mid_str for a '}' on its own at offset close_pos of a
\* literal run that starts at offset starts_at of the template.
invalid_closed_arg(starts_at, close_pos) ==
    ParseError(starts_at + close_pos, "InvalidClosedArg", <<>>)

\* Mutant of unclosed_arg: the offset after the '{'.
unclosed_arg_after_open(open_pos_) ==
    ParseError(open_pos_ + 1, "UnclosedArg", <<>>)

\* The error of parse_format_str for a '{' at offset open_pos that no '}'
\* follows.
unclosed_arg(open_pos_) == ParseError(open_pos_, "UnclosedArg", <<>>)

\* Top of the loop: look for the next '{' and enter parse_mid_str.
parse_format_str_find ==
    /\ parse_pc = "loop"
    /\ IF slice_ok(input, arg_start, Len(input))
       THEN /\ open_pos' = find_from(input, OpenBrace, arg_start)
            /\ starts_pos' = 0
            /\ buffer' = <<>>
            /\ parse_pc' = "mid"
       ELSE /\ parse_pc' = "panic"
            /\ UNCHANGED <<open_pos, starts_pos, buffer>>
    /\ UNCHANGED <<input, arg_start, components, returned>>

\* parse_mid_str(str, starts_at = arg_start): one turn of the while-let.
\* A "}}" copies the text up to and including its first '}' and skips the
\* second; a '}' on its own is an error; with no '}' left the rest is
\* copied and the function returns the buffer.
parse_mid_str ==
    /\ parse_pc = "mid"
    /\ LET close_pos == find_from(mid_str, CloseBrace, starts_pos)
           after_close == unwrap(close_pos) + 1
       IN  IF ~slice_ok(mid_str, starts_pos, Len(mid_str))
           THEN /\ parse_pc' = "panic"
                /\ UNCHANGED <<starts_pos, buffer, returned>>
           ELSE IF is_some(close_pos)
           THEN IF /\ after_close < Len(mid_str)
                   /\ mid_str[after_close + 1] = CloseBrace
                THEN /\ buffer' = buffer \o escaped_close(mid_str, starts_pos, after_close)
                     /\ starts_pos' = after_close + 1
                     /\ UNCHANGED <<returned, parse_pc>>
                ELSE /\ returned' =
                         ReturnErr(invalid_closed_arg(arg_start, unwrap(close_pos)))
                     /\ parse_pc' = "done"
                     /\ UNCHANGED <<starts_pos, buffer>>
           ELSE /\ buffer' = buffer \o Slice(mid_str, starts_pos, Len(mid_str))
                /\ parse_pc' = "open"
                /\ UNCHANGED <<starts_pos, returned>>
    /\ UNCHANGED <<input, arg_start, open_pos, components>>

\* The rest of the loop body: push the literal run, then handle the '{'
\* found (an escaped "{{", a placeholder up to the next '}', or an
\* unclosed one), or leave the loop and return when there was none.
parse_format_str_open ==
    /\ parse_pc = "open"
    /\ LET pushed == push_arg_str(components, buffer)
           after_open == unwrap(open_pos) + 1
           close_pos == find_from(input, CloseBrace, after_open)
           arg == parse_fmt_arg(Slice(input, after_open, unwrap(close_pos)),
                                after_open)
       IN  IF ~is_some(open_pos)
           THEN /\ components' = pushed
                /\ returned' = ReturnOk(pushed)
                /\ parse_pc' = "done"
                /\ UNCHANGED arg_start
           ELSE IF ~slice_ok(input, after_open, Len(input))
           THEN /\ parse_pc' = "panic"
                /\ UNCHANGED <<components, returned, arg_start>>
           ELSE IF after_open < Len(input) /\ input[after_open + 1] = OpenBrace
           THEN /\ components' = push_arg_str(pushed, <<OpenBrace>>)
                /\ arg_start' = unwrap(open_pos) + 2
                /\ parse_pc' = "loop"
                /\ UNCHANGED returned
           ELSE IF is_some(close_pos)
           THEN IF arg.ok
                THEN /\ components' = Append(pushed, component_arg(arg.val))
                     /\ arg_start' = unwrap(close_pos) + 1
                     /\ parse_pc' = "loop"
                     /\ UNCHANGED returned
                ELSE /\ components' = pushed
                     /\ returned' = ReturnErr(arg)
                     /\ parse_pc' = "done"
                     /\ UNCHANGED arg_start
           ELSE /\ components' = pushed
                /\ returned' = ReturnErr(unclosed_arg(unwrap(open_pos)))
                /\ parse_pc' = "done"
                /\ UNCHANGED arg_start
    /\ UNCHANGED <<input, open_pos, starts_pos, buffer>>

\* ---------------------------------------- what a template T should parse to
\* Whether offset p of T holds the byte b, and the offsets >= from that do.
has_byte(T, p, b) == p < Len(T) /\ T[p + 1] = b
offsets_of(T, b, from) == {p \in from..(Len(T) - 1) : T[p + 1] = b}
lowest(S) == CHOOSE p \in S : \A q \in S : p <= q

\* The placeholder whose '{' is at offset o: the offset of its '}' (the
\* first one after the '{'), its content, selector and formatting spec.
has_close(T, o) == offsets_of(T, CloseBrace, o + 1) # {}
close_of(T, o) == lowest(offsets_of(T, CloseBrace, o + 1))
content_of(T, o) == Slice(T, o + 1, close_of(T, o))
has_colon(content) == offsets_of(content, Colon, 0) # {}
colon_of(content) == lowest(offsets_of(content, Colon, 0))
selector_of(content) ==
    IF has_colon(content) THEN Slice(content, 0, colon_of(content)) ELSE content
spec_of(content) ==
    IF has_colon(content)
    THEN Slice(content, colon_of(content) + 1, Len(content))
    ELSE <<>>

\* Selectors: all digits; an identifier.
all_digits(s) == s # <<>> /\ \A k \in 1..Len(s) : s[k] \in 48..57
is_identifier(s) ==
    LET cs == str_chars(s)
    IN  /\ s # <<>>
        /\ is_alphabetic(cs[1]) \/ (cs[1] = <<Underscore>> /\ Len(cs) > 1)
        /\ \A k \in 2..Len(cs) : is_alphanumeric(cs[k]) \/ cs[k] = <<Underscore>>

\* A selector that is accepted (an index has to fit usize), and a
\* formatting spec that is.
selector_accepted(s) ==
    \/ s = <<>>
    \/ all_digits(s) /\ digits_value(s) <= UsizeMax
    \/ ~is_ascii_digit(s[1]) /\ is_identifier(s)
known_spec(f) == f = <<>> \/ f = <<QuestionMark>>
placeholder_accepted(content) ==
    selector_accepted(selector_of(content)) /\ known_spec(spec_of(content))

\* The argument a selector and a formatting spec stand for.
expected_which(s) ==
    IF s = <<>> THEN Positional(None)
    ELSE IF all_digits(s) THEN Positional(Some(digits_value(s)))
    ELSE Ident(s)
expected_arg(content) ==
    FmtArg(expected_which(selector_of(content)),
           IF spec_of(content) = <<QuestionMark>> THEN "Debug" ELSE "Display")

\* The offsets of T, from p on, that are outside every placeholder and
\* escape and have nothing but well-formed text between p and them: T is
\* read byte by byte, "{{" and "}}" are skipped as pairs, an accepted
\* placeholder is skipped up to its '}', and reading stops at the first
\* '{' without '}', '}' on its own, or placeholder that is not accepted.
RECURSIVE literal_offsets(_, _)
literal_offsets(T, p) ==
    IF p >= Len(T) THEN {p}
    ELSE {p} \cup
        IF T[p + 1] = OpenBrace
        THEN IF has_byte(T, p + 1, OpenBrace) THEN literal_offsets(T, p + 2)
             ELSE IF has_close(T, p) /\ placeholder_accepted(content_of(T, p))
             THEN literal_offsets(T, close_of(T, p) + 1)
             ELSE {}
        ELSE IF T[p + 1] = CloseBrace
        THEN IF has_byte(T, p + 1, CloseBrace) THEN literal_offsets(T, p + 2)
             ELSE {}
        ELSE literal_offsets(T, p + 1)

\* The offsets of the '{' of the placeholders of T that well-formed text
\* precedes.
placeholder_opens(T) ==
    {o \in literal_offsets(T, 0) :
        has_byte(T, o, OpenBrace) /\ ~has_byte(T, o + 1, OpenBrace)}

\* parse_format_str has returned.
parsed == parse_pc = "done"

\* ------------------------------------------------------------------- C11
\* T has no "{{" and no "}}".
no_escapes(T) ==
    \A p \in 0..(Len(T) - 2) :
        /\ ~(T[p + 1] = OpenBrace /\ T[p + 2] = OpenBrace)
        /\ ~(T[p + 1] = CloseBrace /\ T[p + 2] = CloseBrace)

\* A literal run as components: nothing when it is empty.
literal_run(s) == IF s = <<>> THEN <<>> ELSE <<component_str(s)>>

\* The components of T[from..] when T has no escapes and every '{' has its
\* '}': literal run, placeholder, literal run, ... in template order.
RECURSIVE expected_components(_, _)
expected_components(T, from) ==
    IF offsets_of(T, OpenBrace, from) = {}
    THEN literal_run(Slice(T, from, Len(T)))
    ELSE LET o == lowest(offsets_of(T, OpenBrace, from))
         IN  literal_run(Slice(T, from, o))
                 \o <<component_arg(expected_arg(content_of(T, o)))>>
                 \o expected_components(T, close_of(T, o) + 1)

\* C11: a template without escaped braces that parses without error yields
\* its literal runs and placeholders in template order: every non-empty run
\* one Str component with the same bytes, "{}" the next positional
\* argument with Display, "{n}" the positional argument n, "{name}" the
\* named one, ":?" Debug; and no Str component is ever empty.  "The {} man"
\* gives "The ", the next positional argument, " man"; "{0}{1}" gives the
\* positional arguments 0 and 1.
C11_ComponentsInOrder ==
    /\ \A k \in 1..Len(components) :
           components[k].kind = "Str" => components[k].str # <<>>
    /\ (parsed /\ returned.tag = "Ok" /\ no_escapes(input))
           => returned.list = expected_components(input, 0)
    /\ (parsed /\ input = TheManTemplate)
           => returned =
                  ReturnOk(<<component_str(<<84, 104, 101, 32>>),
                             component_arg(FmtArg(Positional(None), "Display")),
                             component_str(<<32, 109, 97, 110>>)>>)
    /\ (parsed /\ input = ZeroOneTemplate)
           => returned =
                  ReturnOk(<<component_arg(FmtArg(Positional(Some(0)), "Display")),
                             component_arg(FmtArg(Positional(Some(1)), "Display"))>>)
    /\ (parsed /\ input = FooDebugTemplate)
           => returned =
                  ReturnOk(<<component_arg(FmtArg(Ident(<<102, 111, 111>>), "Debug"))>>)

\* C11 witness: a template of a literal run, a placeholder and a literal
\* run was parsed into three components.
C11_Witness ==
    /\ parsed
    /\ returned.tag = "Ok"
    /\ no_escapes(input)
    /\ Len(returned.list) = 3
    /\ returned.list[1].kind = "Str"
    /\ returned.list[2].kind = "Arg"
    /\ returned.list[3].kind = "Str"

\* ------------------------------------------------------------------- C12
\* T[p..] is literal text and escaped braces only: read byte by byte,
\* every brace met is the first of a "{{" or of a "}}".
RECURSIVE escapes_only(_, _)
escapes_only(T, p) ==
    IF p >= Len(T) THEN TRUE
    ELSE IF T[p + 1] = OpenBrace
    THEN has_byte(T, p + 1, OpenBrace) /\ escapes_only(T, p + 2)
    ELSE IF T[p + 1] = CloseBrace
    THEN has_byte(T, p + 1, CloseBrace) /\ escapes_only(T, p + 2)
    ELSE escapes_only(T, p + 1)

\* Such a T[p..] with every "{{" replaced by "{" and every "}}" by "}".
RECURSIVE unescaped(_, _)
unescaped(T, p) ==
    IF p >= Len(T) THEN <<>>
    ELSE IF T[p + 1] \in {OpenBrace, CloseBrace}
    THEN <<T[p + 1]>> \o unescaped(T, p + 2)
    ELSE <<T[p + 1]>> \o unescaped(T, p + 1)

\* The texts of the components of a list, concatenated.
component_texts(list) == concat([k \in 1..Len(list) |-> list[k].str])

\* The components of a list whose text is "{".
open_brace_components(list) ==
    {k \in 1..Len(list) : list[k] = component_str(<<OpenBrace>>)}

\* C12 as stated: a non-empty template of literal text and escaped braces
\* only parses to a single Str component, the template with every "{{"
\* replaced by "{" and every "}}" by "}".
C12_SingleLiteral ==
    (parsed /\ input # <<>> /\ escapes_only(input, 0))
        => returned = ReturnOk(<<component_str(unescaped(input, 0))>>)

\* C12 amended: a template of literal text and escaped braces only parses
\* to Str components only, none empty, whose texts concatenated are the
\* template with every "{{" replaced by "{" and every "}}" by "}".  Every
\* "{{" is a Str component "{" of its own, so the list is a single
\* component only when the template has no "{{" (or is "{{" itself);
\* "{{literal}}" gives "{" and "literal}".
C12_LiteralTexts ==
    /\ (parsed /\ escapes_only(input, 0))
           => /\ returned.tag = "Ok"
              /\ \A k \in 1..Len(returned.list) :
                     returned.list[k].kind = "Str" /\ returned.list[k].str # <<>>
              /\ component_texts(returned.list) = unescaped(input, 0)
              /\ 2 * Cardinality(open_brace_components(returned.list))
                     = Cardinality(offsets_of(input, OpenBrace, 0))
              /\ (input # <<>> /\ offsets_of(input, OpenBrace, 0) = {})
                     => Len(returned.list) = 1
    /\ (parsed /\ input = EscapedLiteralTemplate)
           => returned =
                  ReturnOk(<<component_str(<<OpenBrace>>),
                             component_str(<<108, 105, 116, 101, 114, 97, 108,
                                             CloseBrace>>)>>)

\* C12 witness: "{{literal}}" was parsed into two components.
C12_Witness ==
    /\ parsed
    /\ input = EscapedLiteralTemplate
    /\ returned.tag = "Ok"
    /\ Len(returned.list) = 2

\* ------------------------------------------------------------------- C13
\* C13: when well-formed text precedes a '{' that no second '{' follows
\* directly and no '}' follows anywhere, the parse fails with UnclosedArg at
\* the offset of that '{' and returns no components; "{" fails at offset 0.
C13_UnclosedArgAtOpen ==
    parsed =>
        /\ \A o \in placeholder_opens(input) :
               ~has_close(input, o)
                   => returned = ReturnErr(ParseError(o, "UnclosedArg", <<>>))
        /\ input = <<OpenBrace>>
               => returned = ReturnErr(ParseError(0, "UnclosedArg", <<>>))
        /\ returned.kind = "UnclosedArg" => returned.list = <<>>

\* C13 witness: a '{' after an escape or a placeholder was left unclosed.
C13_Witness ==
    /\ parsed
    /\ returned.tag = "Err"
    /\ returned.kind = "UnclosedArg"
    /\ returned.pos >= 2
    /\ components # <<>>

\* ------------------------------------------------------------------- C14
\* C14: a '}' outside every placeholder that no second '}' follows
\* directly, with well-formed text before it ("}}" pairs read left to
\* right), makes the parse fail with InvalidClosedArg at the offset of that
\* '}' in the template, also in a literal run that starts after earlier
\* placeholders or escapes; "}}}" fails at offset 2.
C14_InvalidClosedArgAtBrace ==
    parsed =>
        /\ \A p \in literal_offsets(input, 0) :
               (has_byte(input, p, CloseBrace) /\ ~has_byte(input, p + 1, CloseBrace))
                   => returned = ReturnErr(ParseError(p, "InvalidClosedArg", <<>>))
        /\ input = <<CloseBrace, CloseBrace, CloseBrace>>
               => returned = ReturnErr(ParseError(2, "InvalidClosedArg", <<>>))

\* C14 witness: a '}' on its own was met inside a literal run that starts
\* after a placeholder or escape, not at the start of the run.
C14_Witness ==
    /\ parsed
    /\ returned.tag = "Err"
    /\ returned.kind = "InvalidClosedArg"
    /\ arg_start > 0
    /\ returned.pos > arg_start

RECURSIVE ascending(_)
ascending(S) ==
    IF S = {} THEN <<>> ELSE <<lowest(S)>> \o ascending(S \ {lowest(S)})

\* The Arg components of a list.
is_arg(component) == component.kind = "Arg"
arg_components(list) == SelectSeq(list, is_arg)

\* What the selector of the placeholder at offset o of T does to the parse,
\* given whether an all-digit selector is accepted: an empty, accepted
\* all-digit or identifier selector raises no selector error; another one
\* that starts with a digit fails with NotANumber, any other with
\* NotAnIdent, both at the offset of the selector's first byte.
selector_rules(T, o, digits_accepted) ==
    LET s == selector_of(content_of(T, o))
        rejected(kind) == returned = ReturnErr(ParseError(o + 1, kind, s))
        accepted == returned.kind \notin {"NotANumber", "NotAnIdent"}
                        \/ returned.pos # o + 1
    IN  IF s = <<>> THEN accepted
        ELSE IF all_digits(s)
        THEN IF digits_accepted THEN accepted ELSE rejected("NotANumber")
        ELSE IF is_ascii_digit(s[1]) THEN rejected("NotANumber")
        ELSE IF is_identifier(s) THEN accepted
        ELSE rejected("NotAnIdent")

\* On success the arguments are, in order, what the selectors stand for:
\* the next positional one, the positional one of that index, the named one.
selector_values ==
    LET opens == ascending(placeholder_opens(input))
        args == arg_components(returned.list)
    IN  /\ Len(args) = Len(opens)
        /\ \A k \in 1..Len(args) :
               args[k].arg.which_arg =
                   expected_which(selector_of(content_of(input, opens[k])))

\* C16 as stated: every all-digit selector is a positional index.
C16_SelectorClasses ==
    parsed =>
        /\ \A o \in placeholder_opens(input) :
               has_close(input, o) => selector_rules(input, o, TRUE)
        /\ returned.tag = "Ok" => selector_values

\* C16 amended: with well-formed text before the placeholder, an empty
\* selector is the next positional argument, an all-digit selector whose
\* value fits usize the positional argument of that index, an identifier
\* (first character alphabetic, or '_' when more characters follow; the
\* others alphanumeric or '_') the named argument.  An all-digit selector
\* too large for usize, or one that starts with a digit and is not all
\* digits, fails with NotANumber; any other with NotAnIdent (a lone "_"
\* included); both at the offset of the selector's first byte.
C16_SelectorClassesFit ==
    parsed =>
        /\ \A o \in placeholder_opens(input) :
               has_close(input, o)
                   => selector_rules(input, o,
                          digits_value(selector_of(content_of(input, o))) <= UsizeMax)
        /\ returned.tag = "Ok" => selector_values

\* C16 witness: an all-digit selector too large for usize failed with
\* NotANumber.
C16_Witness ==
    /\ parsed
    /\ returned.tag = "Err"
    /\ returned.kind = "NotANumber"
    /\ all_digits(returned.what)
    /\ Len(returned.what) = 2

\* ======================================================== FormattingFlags
\* Formatting, FormattingMode, IsAlternate and FormattingFlags.
FormattingModes == {"Regular", "Hexadecimal", "Binary"}
IsAlternates == {"Yes", "No"}
Display == [kind |-> "Display", mode |-> ""]
Debug(mode) == [kind |-> "Debug", mode |-> mode]
FormattingFlags(formatting, is_alternate) ==
    [formatting |-> formatting, is_alternate |-> is_alternate]

\* FormattingFlags::display and FormattingFlags::debug.
display(is_alternate) == FormattingFlags(Display, is_alternate)
debug(mode, is_alternate) == FormattingFlags(Debug(mode), is_alternate)

\* Paths the macros can be told the runtime crate lives at.
CratePaths == {"const_format", "cfmt"}

\* Most arguments whose flags are compiled in one invocation.
MaxFlags == 2

\* Mutant of tokens: alternate hexadecimal gets the constant of plain
\* hexadecimal.
tokens_hex_drops_alternate(self, crate_path) ==
    LET formatting ==
            IF self.formatting.kind = "Display" THEN "Regular"
            ELSE self.formatting.mode
        key == <<self.is_alternate, formatting>>
    IN  [crate_path |-> crate_path,
         constant |->
            CASE key = <<"No", "Regular">> -> "__REG"
              [] key = <<"No", "Hexadecimal">> -> "__HEX"
              [] key = <<"No", "Binary">> -> "__BIN"
              [] key = <<"Yes", "Regular">> -> "__A_REG"
              [] key = <<"Yes", "Hexadecimal">> -> "__HEX"
              [] key = <<"Yes", "Binary">> -> "__A_BIN"]

\* FormattingFlags::tokens: the path of the runtime constant.
tokens(self, crate_path) ==
    LET formatting ==
            IF self.formatting.kind = "Display" THEN "Regular"
            ELSE self.formatting.mode
        key == <<self.is_alternate, formatting>>
    IN  [crate_path |-> crate_path,
         constant |->
            CASE key = <<"No", "Regular">> -> "__REG"
              [] key = <<"No", "Hexadecimal">> -> "__HEX"
              [] key = <<"No", "Binary">> -> "__BIN"
              [] key = <<"Yes", "Regular">> -> "__A_REG"
              [] key = <<"Yes", "Hexadecimal">> -> "__A_HEX"
              [] key = <<"Yes", "Binary">> -> "__A_BIN"]

\* The flags built for the arguments of one invocation, and the constants
\* emitted for them so far.
VARIABLES flags, emitted

flagsVars == <<flags, emitted>>

FlagsInit ==
    /\ flags = <<>>
    /\ emitted = <<>>

\* No flags are being compiled.
FlagsIdle == FlagsInit

\* An argument formatted with Display.
flags_display ==
    /\ Len(flags) < MaxFlags
    /\ \E is_alternate \in IsAlternates :
           flags' = Append(flags, display(is_alternate))
    /\ UNCHANGED emitted

\* An argument formatted with Debug in some numeric base.
flags_debug ==
    /\ Len(flags) < MaxFlags
    /\ \E mode \in FormattingModes, is_alternate \in IsAlternates :
           flags' = Append(flags, debug(mode, is_alternate))
    /\ UNCHANGED emitted

\* The constant of the next argument is emitted.
flags_tokens ==
    /\ Len(emitted) < Len(flags)
    /\ \E crate_path \in CratePaths :
           emitted' = Append(emitted, tokens(flags[Len(emitted) + 1], crate_path))
    /\ UNCHANGED flags

\* Every variable of the model.
vars == <<replaceVars, repeatVars, indexVars, parseVars, flagsVars>>

\* ------------------------------------------------------------------- C17
\* The cursors are inside their strings and on char boundaries, and no
\* slice has panicked.
cursors_in_range ==
    /\ parse_pc # "panic"
    /\ arg_start <= Len(input)
    /\ is_char_boundary(input, arg_start)
    /\ parse_pc = "mid"
           => /\ starts_pos <= Len(mid_str)
              /\ is_char_boundary(mid_str, starts_pos)

\* A turn of parse_format_str's loop that does not return moves arg_start
\* forward, and so does a turn of parse_mid_str's loop with starts_pos;
\* nothing moves arg_start back.
cursors_advance ==
    /\ arg_start' >= arg_start
    /\ (parse_pc = "open" /\ parse_pc' = "loop") => arg_start' > arg_start
    /\ (parse_pc = "mid" /\ parse_pc' = "mid") => starts_pos' > starts_pos

\* parse_format_str returns Ok only with no '{' left from the cursor on,
\* and otherwise returns a ParseError.
returns_at_end ==
    parsed =>
        \/ returned.tag = "Ok" /\ offsets_of(input, OpenBrace, arg_start) = {}
        \/ returned.tag = "Err"

\* C17: the parse of every template terminates: arg_start grows on every
\* turn of parse_format_str's loop that does not return, never exceeds the
\* template's length and is always on a char boundary (no slice panics);
\* the same holds for starts_pos in parse_mid_str; and the loop is left
\* only with no '{' remaining (success) or by returning a ParseError.
C17_ParseTerminates ==
    /\ [](cursors_in_range /\ returns_at_end)
    /\ [][cursors_advance]_vars
    /\ <>parsed

\* C17 witness: a parse returned Ok with arg_start at the end of the
\* template, behind a two-byte character and a placeholder.
C17_Witness ==
    /\ parsed
    /\ returned.tag = "Ok"
    /\ arg_start = Len(input)
    /\ \E p \in 0..(Len(input) - 1) : is_continuation_byte(input[p + 1])
    /\ Len(arg_components(returned.list)) = 1

\* ------------------------------------------------------------------- C18
\* The numeric base of flags: that of Debug, Regular for Display.
base_of(f) ==
    IF f.formatting.kind = "Debug" THEN f.formatting.mode ELSE "Regular"

\* The constants that stand for alternate flags, and those of each base.
alternate_constants == {"__A_REG", "__A_HEX", "__A_BIN"}
base_constants(base) ==
    CASE base = "Regular" -> {"__REG", "__A_REG"}
      [] base = "Hexadecimal" -> {"__HEX", "__A_HEX"}
      [] base = "Binary" -> {"__BIN", "__A_BIN"}

\* C18: the constant tokens emits depends on the pair (alternate, numeric
\* base) alone: Display compiles to the Regular base whatever else holds,
\* Debug(mode) to mode, and the six pairs have six different constants
\* (__REG, __HEX, __BIN, __A_REG, __A_HEX, __A_BIN), so that alternate and
\* base can both be read off the constant.
C18_FlagConstant ==
    /\ \A k \in 1..Len(emitted) :
           /\ emitted[k].constant \in base_constants(base_of(flags[k]))
           /\ emitted[k].constant \in alternate_constants
                  <=> flags[k].is_alternate = "Yes"
           /\ flags[k].formatting.kind = "Display"
                  => emitted[k].constant \in {"__REG", "__A_REG"}
    /\ \A k, l \in 1..Len(emitted) :
           emitted[k].constant = emitted[l].constant
               <=> /\ flags[k].is_alternate = flags[l].is_alternate
                   /\ base_of(flags[k]) = base_of(flags[l])

\* C18 witness: alternate Display and alternate Debug(Regular) were
\* compiled under different crate paths, to the same constant.
C18_Witness ==
    /\ Len(emitted) = 2
    /\ flags[1] = display("Yes")
    /\ flags[2] = debug("Regular", "Yes")
    /\ emitted[1].crate_path # emitted[2].crate_path
    /\ emitted[1].constant = "__A_REG"
    /\ emitted[2].constant = "__A_REG"

\* ========================================================= specifications
\* str_replace! on its own: the other macros are not invoked.
InitReplace == ReplaceInit /\ RepeatIdle /\ IndexIdle /\ ParseIdle /\ FlagsIdle
NextReplace ==
    \/ str_replace_macro /\ UNCHANGED <<repeatVars, indexVars, parseVars, flagsVars>>
    \/ byte_loop /\ UNCHANGED <<repeatVars, indexVars, parseVars, flagsVars>>
    \/ write_replaced /\ UNCHANGED <<repeatVars, indexVars, parseVars, flagsVars>>
    \/ empty_copy /\ UNCHANGED <<repeatVars, indexVars, parseVars, flagsVars>>
    \/ find /\ UNCHANGED <<repeatVars, indexVars, parseVars, flagsVars>>
    \/ gap /\ UNCHANGED <<repeatVars, indexVars, parseVars, flagsVars>>
    \/ tail /\ UNCHANGED <<repeatVars, indexVars, parseVars, flagsVars>>
SpecReplace == InitReplace /\ [][NextReplace]_vars

\* str_repeat! on its own.
InitRepeat == RepeatInit /\ ReplaceIdle /\ IndexIdle /\ ParseIdle /\ FlagsIdle
NextRepeat ==
    \/ repeat_str_len /\ UNCHANGED <<replaceVars, indexVars, parseVars, flagsVars>>
    \/ repeat_out_len /\ UNCHANGED <<replaceVars, indexVars, parseVars, flagsVars>>
    \/ repeat_out_b /\ UNCHANGED <<replaceVars, indexVars, parseVars, flagsVars>>
    \/ repeat_out_s /\ UNCHANGED <<replaceVars, indexVars, parseVars, flagsVars>>
SpecRepeat == InitRepeat /\ [][NextRepeat]_vars

\* str_index!, str_get! and str_splice! on one text and index argument.
InitIndex == IndexInit /\ ReplaceIdle /\ RepeatIdle /\ ParseIdle /\ FlagsIdle
NextIndex ==
    \/ str_index_macro /\ UNCHANGED <<replaceVars, repeatVars, parseVars, flagsVars>>
    \/ str_get_macro /\ UNCHANGED <<replaceVars, repeatVars, parseVars, flagsVars>>
    \/ str_splice_macro /\ UNCHANGED <<replaceVars, repeatVars, parseVars, flagsVars>>
    \/ str_splice_back /\ UNCHANGED <<replaceVars, repeatVars, parseVars, flagsVars>>
SpecIndex == InitIndex /\ [][NextIndex]_vars

\* parse_format_str on one template.
InitParse == ParseInit /\ ReplaceIdle /\ RepeatIdle /\ IndexIdle /\ FlagsIdle
NextParse ==
    \/ parse_format_str_find /\ UNCHANGED <<replaceVars, repeatVars, indexVars, flagsVars>>
    \/ parse_mid_str /\ UNCHANGED <<replaceVars, repeatVars, indexVars, flagsVars>>
    \/ parse_format_str_open /\ UNCHANGED <<replaceVars, repeatVars, indexVars, flagsVars>>
SpecParse == InitParse /\ [][NextParse]_vars

\* parse_format_str is a sequential function: once called it keeps taking
\* steps until it returns.
SpecParseRuns == SpecParse /\ WF_vars(NextParse)

\* FormattingFlags::tokens on the flags of the arguments of one invocation.
InitFlags == FlagsInit /\ ReplaceIdle /\ RepeatIdle /\ IndexIdle /\ ParseIdle
NextFlags ==
    \/ flags_display /\ UNCHANGED <<replaceVars, repeatVars, indexVars, parseVars>>
    \/ flags_debug /\ UNCHANGED <<replaceVars, repeatVars, indexVars, parseVars>>
    \/ flags_tokens /\ UNCHANGED <<replaceVars, repeatVars, indexVars, parseVars>>
SpecFlags == InitFlags /\ [][NextFlags]_vars

====
